---- MODULE Spec2Model ----
(***************************************************************************)
(* GameDevMap: the submission pipeline of the server.                      *)
(*                                                                         *)
(*   POST /api/submissions      intake: duplicate check, temporary JSON,   *)
(*                              Submission document                        *)
(*   recovery of data/pending_submissions/                                 *)
(*   PUT  /api/submissions/:id/approve | reject                            *)
(*   syncToJson()               Club collection -> public/data/clubs.json  *)
(*   migrateClubs.js            public/data/clubs.json -> Club collection  *)
(*   GET  /api/clubs[/:id]      the public reads of the Club collection    *)
(*   the submission page        mode toggle, club search, submit handler   *)
(*                                                                         *)
(* The handlers are modelled step by step as docs/API_REFERENCE.md lists   *)
(* their processing; every step is one database or file operation, and the *)
(* steps of concurrent requests interleave.                                *)
(***************************************************************************)
EXTENDS Integers, Sequences, FiniteSets, TLC

(* ------------------------------ bounds -------------------------------- *)
NumSubs == 1
MaxCalls == 1
NumReqs == 2
NumLost == 1
MaxSweeps == 2
MaxTime == 1
MaxRuns == 2
MaxMigrations == 2
MaxEntries == 2

Actors == {"admin1", "admin2"}
Names == {"n1", "n2"}
Schools == {"s1"}
\* Descriptions are texts (sequences of characters); <<>> is the empty string.
ShortText == <<1>>
LongText == <<2, 2, 2>>
Tsinghua == [latitude |-> 39, longitude |-> 116]
Payloads == [name : Names, school : Schools, coordinates : {Tsinghua},
             short_description : {ShortText}, long_description : {LongText}]

\* Request bodies with either description empty or not, at two places.
Fudan == [latitude |-> 31, longitude |-> 121]
FullPayloads == [name : {"n1"}, school : Schools, coordinates : {Tsinghua, Fudan},
                 short_description : {<<>>, ShortText},
                 long_description : {<<>>, LongText}]
Reqs == 1..NumReqs
LostReqs == 1..NumLost
Sweepers == {1, 2}
RandomIds == {1, 2}
NoName == <<0, 0>>

(* ------------------------------- state -------------------------------- *)
VARIABLES
  storeUp,          \* MongoDB reachable
  submissions,      \* Submission collection; _id = index
  clubs,            \* Club collection; _id = index
  pendingFiles,     \* data/pending_submissions/: file name -> content
  clubsJson,        \* public/data/clubs.json
  clubsJsonBackup,  \* public/data/clubs.json.backup
  now,              \* clock (timestamp of new Date())
  admin,            \* per administrator: the approve/reject request in progress
  intake,           \* per intake request: position in POST /api/submissions
  sweep,            \* per recovery run: position in the recovery procedure
  syncs,            \* the syncToJson() runs that were triggered
  migrate,          \* the migrateClubs.js script: position and progress
  reader,           \* the last GET /api/clubs[/:id] request and its response
  form              \* the submission page: mode, selection, button, request

vars == <<storeUp, submissions, clubs, pendingFiles, clubsJson, clubsJsonBackup,
          now, admin, intake, sweep, syncs, migrate, reader, form>>

storeVars == <<submissions, clubs>>
fileVars == <<pendingFiles, clubsJson, clubsJsonBackup>>
sideVars == <<migrate, reader, form>>

(* ----------------------------- documents ------------------------------ *)
\* x || d of JavaScript on texts: the empty text is falsy.
OrElse(x, d) == IF x = <<>> THEN d ELSE x

\* The data object of a Submission document, from the validated request body.
SubmissionData(body) ==
  [ name |-> body.name,
    school |-> body.school,
    coordinates |-> <<body.coordinates.longitude, body.coordinates.latitude>>,
    description |-> body.long_description,
    shortDescription |-> body.short_description ]

\* A Submission document as POST /api/submissions writes it.
NewSubmission(r, data, dup) ==
  [ req |-> r,
    submissionType |-> "new",
    editingClubId |-> 0,
    status |-> "pending",
    data |-> SubmissionData(data),
    duplicateCheck |-> dup,
    reviewedAt |-> 0,
    reviewedBy |-> "none",
    rejectionReason |-> "none" ]

\* A Submission document of an edit request: it references the Club to change.
EditSubmission(r, data, dup, club) ==
  [NewSubmission(r, data, dup) EXCEPT !.submissionType = "edit",
                                      !.editingClubId = club]

\* The Club document approve creates from a submission.
ClubFromSubmission(id, actor) ==
  [ name |-> submissions[id].data.name,
    school |-> submissions[id].data.school,
    coordinates |-> submissions[id].data.coordinates,
    description |-> submissions[id].data.description,
    shortDescription |-> OrElse(submissions[id].data.shortDescription, <<>>),
    sourceSubmission |-> id,
    verifiedBy |-> actor,
    createdAt |-> now,
    updatedAt |-> now ]

\* The referenced Club document after an edit is applied to it: the payload
\* fields are replaced and updatedAt is bumped; _id and createdAt stay.
EditedClub(club, sub) ==
  [club EXCEPT !.name = sub.data.name,
               !.school = sub.data.school,
               !.coordinates = sub.data.coordinates,
               !.description = sub.data.description,
               !.shortDescription = OrElse(sub.data.shortDescription, <<>>),
               !.updatedAt = now]

\* ClubsAfterEdit creating a new document instead of updating the referenced one.
ClubsAfterEdit_Appends(sub) ==
  Append(clubs, [EditedClub(clubs[sub.editingClubId], sub) EXCEPT !.createdAt = now])

\* The Club collection after an edit submission is approved: the referenced
\* document is updated in place.
ClubsAfterEdit(sub) ==
  [clubs EXCEPT ![sub.editingClubId] = EditedClub(@, sub)]

\* ApprovedFields leaving rejectionReason as it is.
ApprovedFields_KeepsReason(sub, actor) ==
  [sub EXCEPT !.status = "approved",
              !.reviewedAt = now,
              !.reviewedBy = actor]

\* The fields approve writes on the submission.
ApprovedFields(sub, actor) ==
  [sub EXCEPT !.status = "approved",
              !.reviewedAt = now,
              !.reviewedBy = actor,
              !.rejectionReason = "none"]

\* The fields reject writes on the submission.
RejectedFields(sub, actor, reason) ==
  [sub EXCEPT !.status = "rejected",
              !.reviewedAt = now,
              !.reviewedBy = actor,
              !.rejectionReason = reason]

(* ----------------------------- responses ------------------------------ *)
NoResp == [success |-> FALSE, error |-> "none", http |-> 0]

\* 409: { success: false, error: 'INVALID_STATUS', message: ... }
InvalidStatusResp ==
  [success |-> FALSE, error |-> "INVALID_STATUS", http |-> 409,
   message |-> "only pending submissions can be approved"]

RejectInvalidStatusResp ==
  [success |-> FALSE, error |-> "INVALID_STATUS", http |-> 409]

MissingReasonResp ==
  [success |-> FALSE, error |-> "MISSING_REASON", http |-> 400]

ServerErrorResp ==
  [success |-> FALSE, error |-> "SERVER_ERROR", http |-> 500]

ApproveOkResp(id, clubId) ==
  [success |-> TRUE, error |-> "none", http |-> 200,
   submissionId |-> id, clubId |-> clubId]

RejectOkResp(id) ==
  [success |-> TRUE, error |-> "none", http |-> 200, submissionId |-> id]

IdleAdmin == [pc |-> "idle", op |-> "none", sub |-> 0, club |-> 0,
              resp |-> NoResp, calls |-> 0]

\* The request of administrator a ends with response r.
Reply(a, r) ==
  [admin EXCEPT ![a].pc = "idle", ![a].resp = r]

(* --------------------- syncToJson(): Club -> JSON --------------------- *)
\* ToJsonEntry with the former fallback: an empty short description is filled
\* with the beginning of the long one.
ToJsonEntry_Fallback(id, club) ==
  [ id |-> id, name |-> club.name, school |-> club.school,
    long_description |-> club.description,
    short_description |-> IF club.shortDescription = <<>>
                            THEN SubSeq(club.description, 1,
                                        IF Len(club.description) < 2
                                          THEN Len(club.description) ELSE 2)
                            ELSE club.shortDescription,
    coordinates |-> <<club.coordinates[1], club.coordinates[2]>> ]

\* One clubs.json entry of a Club document.
ToJsonEntry(id, club) ==
  [ id |-> id, name |-> club.name, school |-> club.school,
    long_description |-> club.description,
    short_description |-> club.shortDescription,
    coordinates |-> <<club.coordinates[1], club.coordinates[2]>> ]

ToJson(docs) == [i \in 1..Len(docs) |-> ToJsonEntry(i, docs[i])]

\* A run of syncToJson() triggered by an approval / started by hand.
NewSync == [pc |-> "read", docs |-> <<>>, by |-> "approve"]
ManualSync == [pc |-> "read", docs |-> <<>>, by |-> "manual"]

\* The list of runs without run t (a run that ended).
Ended(t) == [i \in 1..(Len(syncs) - 1) |-> IF i < t THEN syncs[i] ELSE syncs[i + 1]]

\* SyncRead undoing the approvals when it cannot read the Club collection.
SyncRead_Undo(t) ==
  /\ syncs[t].pc = "read"
  /\ IF storeUp
       THEN /\ syncs' = [syncs EXCEPT ![t].pc = "backup", ![t].docs = ToJson(clubs)]
            /\ UNCHANGED submissions
       ELSE /\ syncs' = Ended(t)
            /\ submissions' = [i \in 1..Len(submissions) |->
                                 [submissions[i] EXCEPT !.status = "pending"]]
  /\ UNCHANGED <<storeUp, clubs, fileVars, now, admin, intake, sweep, sideVars>>

\* 1. read all Club documents, 2. convert them
SyncRead(t) ==
  /\ syncs[t].pc = "read"
  /\ IF storeUp
       THEN syncs' = [syncs EXCEPT ![t].pc = "backup", ![t].docs = ToJson(clubs)]
       ELSE syncs' = Ended(t)
  /\ UNCHANGED <<storeUp, storeVars, fileVars, now, admin, intake, sweep, sideVars>>

\* 3. back the existing file up to clubs.json.backup
SyncBackup(t) ==
  /\ syncs[t].pc = "backup"
  /\ clubsJsonBackup' = clubsJson
  /\ syncs' = [syncs EXCEPT ![t].pc = "write"]
  /\ UNCHANGED <<storeUp, storeVars, pendingFiles, clubsJson, now, admin, intake, sweep, sideVars>>

\* ReplaceFile leaving a file that lacks its last entry.
ReplaceFile_Partial(old, new) == SubSeq(new, 1, Len(new) - 1)

\* The file is replaced as a whole: its content is the old or the new one.
ReplaceFile(old, new) == new

\* SyncWrite adding the entries to the existing file.
SyncWrite_Appends(t) ==
  /\ syncs[t].pc = "write"
  /\ clubsJson' = clubsJson \o syncs[t].docs
  /\ syncs' = Ended(t)
  /\ UNCHANGED <<storeUp, storeVars, pendingFiles, clubsJsonBackup, now, admin, intake, sweep, sideVars>>

\* 4. write the new file
SyncWrite(t) ==
  /\ syncs[t].pc = "write"
  /\ clubsJson' = ReplaceFile(clubsJson, syncs[t].docs)
  /\ syncs' = Ended(t)
  /\ UNCHANGED <<storeUp, storeVars, pendingFiles, clubsJsonBackup, now, admin, intake, sweep, sideVars>>

\* node server/scripts/syncToJson.js: a run started by hand or by a timer
SyncManual ==
  /\ Len(syncs) < MaxRuns
  /\ syncs' = Append(syncs, ManualSync)
  /\ UNCHANGED <<storeUp, storeVars, fileVars, now, admin, intake, sweep, sideVars>>

\* A run fails or crashes midway, after reading: it ends without touching
\* anything more.
SyncFail(t) ==
  /\ syncs[t].pc \in {"backup", "write"}
  /\ syncs' = Ended(t)
  /\ UNCHANGED <<storeUp, storeVars, fileVars, now, admin, intake, sweep, sideVars>>

(* ------------------ PUT /api/submissions/:id/approve ------------------ *)
\* ApproveCheck without the status check: every submission is approved again.
ApproveCheck_NoStatusCheck(a, id) ==
  /\ admin[a].pc = "idle"
  /\ admin[a].calls < MaxCalls
  /\ id \in 1..Len(submissions)
  /\ admin' = [admin EXCEPT ![a].op = "approve", ![a].sub = id, ![a].club = 0,
                            ![a].resp = NoResp, ![a].calls = @ + 1,
                            ![a].pc = IF storeUp THEN "create" ELSE "idle"]
  /\ UNCHANGED <<storeUp, storeVars, fileVars, now, intake, sweep, syncs, sideVars>>

\* 2. check the submission's status (must be pending)
ApproveCheck(a, id) ==
  /\ admin[a].pc = "idle"
  /\ admin[a].calls < MaxCalls
  /\ id \in 1..Len(submissions)
  /\ admin' =
       LET started == [admin EXCEPT ![a].op = "approve", ![a].sub = id, ![a].club = 0,
                                    ![a].resp = NoResp, ![a].calls = @ + 1]
       IN  IF ~storeUp
             THEN [started EXCEPT ![a].resp = ServerErrorResp]
             ELSE IF submissions[id].status /= "pending"
               THEN [started EXCEPT ![a].resp = InvalidStatusResp]
               ELSE [started EXCEPT ![a].pc = "create"]
  /\ UNCHANGED <<storeUp, storeVars, fileVars, now, intake, sweep, syncs, sideVars>>

\* 3. create the Club document
ApproveCreateClub(a) ==
  /\ admin[a].pc = "create"
  /\ IF ~storeUp
       THEN /\ admin' = Reply(a, ServerErrorResp)
            /\ UNCHANGED clubs
       ELSE IF submissions[admin[a].sub].submissionType = "edit"
         THEN /\ clubs' = ClubsAfterEdit(submissions[admin[a].sub])
              /\ admin' = [admin EXCEPT ![a].pc = "update",
                                        ![a].club = submissions[admin[a].sub].editingClubId]
         ELSE /\ clubs' = Append(clubs, ClubFromSubmission(admin[a].sub, a))
              /\ admin' = [admin EXCEPT ![a].pc = "update", ![a].club = Len(clubs) + 1]
  /\ UNCHANGED <<storeUp, submissions, fileVars, now, intake, sweep, syncs, sideVars>>

\* 4. update the submission's status, 5. trigger syncToJson() asynchronously
ApproveUpdateStatus(a) ==
  /\ admin[a].pc = "update"
  /\ IF storeUp
       THEN /\ submissions' = [submissions EXCEPT
                                 ![admin[a].sub] = ApprovedFields(@, a)]
            /\ syncs' = Append(syncs, NewSync)
            /\ admin' = Reply(a, ApproveOkResp(admin[a].sub, admin[a].club))
       ELSE /\ admin' = Reply(a, ServerErrorResp)
            /\ UNCHANGED <<submissions, syncs>>
  /\ UNCHANGED <<storeUp, clubs, fileVars, now, intake, sweep, sideVars>>

(* ------------------ PUT /api/submissions/:id/reject ------------------- *)
Reasons == {"", "incomplete"}

\* ReasonMissing accepting every reason.
ReasonMissing_Never(reason) == reason /= reason

\* rejectionReason is required, 1-500 characters.
ReasonMissing(reason) == reason = ""

\* Reject also triggering syncToJson(), as approve does.
Reject_Syncs(a, id, reason) ==
  /\ admin[a].pc = "idle"
  /\ admin[a].calls < MaxCalls
  /\ id \in 1..Len(submissions)
  /\ storeUp /\ ~ReasonMissing(reason) /\ submissions[id].status = "pending"
  /\ admin' = [admin EXCEPT ![a].op = "reject", ![a].sub = id, ![a].club = 0,
                            ![a].resp = RejectOkResp(id), ![a].calls = @ + 1]
  /\ submissions' = [submissions EXCEPT ![id] = RejectedFields(@, a, reason)]
  /\ syncs' = Append(syncs, NewSync)
  /\ UNCHANGED <<storeUp, clubs, fileVars, now, intake, sweep, sideVars>>

\* The whole handler: the reason is required, then the submission is claimed
\* with one conditional update on status = pending.
Reject(a, id, reason) ==
  /\ admin[a].pc = "idle"
  /\ admin[a].calls < MaxCalls
  /\ id \in 1..Len(submissions)
  /\ LET started == [admin EXCEPT ![a].op = "reject", ![a].sub = id, ![a].club = 0,
                                  ![a].resp = NoResp, ![a].calls = @ + 1]
     IN  IF ReasonMissing(reason)
           THEN /\ admin' = [started EXCEPT ![a].resp = MissingReasonResp]
                /\ UNCHANGED submissions
           ELSE IF ~storeUp
             THEN /\ admin' = [started EXCEPT ![a].resp = ServerErrorResp]
                  /\ UNCHANGED submissions
             ELSE IF submissions[id].status /= "pending"
               THEN /\ admin' = [started EXCEPT ![a].resp = RejectInvalidStatusResp]
                    /\ UNCHANGED submissions
               ELSE /\ admin' = [started EXCEPT ![a].resp = RejectOkResp(id)]
                    /\ submissions' = [submissions EXCEPT
                                         ![id] = RejectedFields(@, a, reason)]
  /\ UNCHANGED <<storeUp, clubs, fileVars, now, intake, sweep, syncs, sideVars>>

(* --------------------------- environment ------------------------------ *)
\* mongoose 'disconnected' / 'reconnected'
StoreDown ==
  /\ storeUp
  /\ storeUp' = FALSE
  /\ UNCHANGED <<storeVars, fileVars, now, admin, intake, sweep, syncs, sideVars>>

StoreReconnect ==
  /\ ~storeUp
  /\ storeUp' = TRUE
  /\ UNCHANGED <<storeVars, fileVars, now, admin, intake, sweep, syncs, sideVars>>

Tick ==
  /\ now <= MaxTime
  /\ now' = now + 1
  /\ UNCHANGED <<storeUp, storeVars, fileVars, admin, intake, sweep, syncs, sideVars>>

(* ----------------------- POST /api/submissions ------------------------ *)
IdleIntake == [pc |-> "start",
               data |-> [name |-> "none", school |-> "none",
                         coordinates |-> [latitude |-> 0, longitude |-> 0],
                         short_description |-> <<>>, long_description |-> <<>>],
               dup |-> [passed |-> TRUE, similarClubs |-> {}],
               timestamp |-> 0, random |-> 0, file |-> NoName, sub |-> 0,
               resp |-> NoResp]

\* The published clubs the duplicate check reports for a payload.
SimilarClubs(data) ==
  {i \in 1..Len(clubs) : clubs[i].name = data.name /\ clubs[i].school = data.school}

\* The result recorded when the duplicate check itself fails.
DegradedCheck == [passed |-> TRUE, similarClubs |-> {}]

\* DuplicateCheck recording a failed check as not passed.
DuplicateCheck_Strict(data) ==
  IF storeUp
    THEN [passed |-> SimilarClubs(data) = {}, similarClubs |-> SimilarClubs(data)]
    ELSE [passed |-> FALSE, similarClubs |-> {}]

\* 3. duplicate check against the Club collection (degradable, never blocks)
DuplicateCheck(data) ==
  IF storeUp
    THEN [passed |-> SimilarClubs(data) = {}, similarClubs |-> SimilarClubs(data)]
    ELSE DegradedCheck

\* 1.-3. the validated payload arrives and the duplicate check runs
IntakeDuplicateCheck(r, data) ==
  /\ intake[r].pc = "start"
  /\ intake' = [intake EXCEPT ![r].pc = "buffer", ![r].data = data,
                              ![r].dup = DuplicateCheck(data)]
  /\ UNCHANGED <<storeUp, storeVars, fileVars, now, admin, sweep, syncs, sideVars>>

\* FileName without the random component.
FileName_TimestampOnly(timestamp, random) == <<timestamp, 0>>

\* File name {timestamp}_{random}.json
FileName(timestamp, random) == <<timestamp, random>>

\* Content of the temporary JSON: validated data + metadata + duplicate check.
FileContent(r) ==
  [req |-> r, timestamp |-> now, data |-> intake[r].data, duplicateCheck |-> intake[r].dup]

\* fs write of a file: an existing file of the same name is replaced.
WriteFile(dir, name, content) ==
  {f \in dir : f.name /= name} \cup {[name |-> name, content |-> content]}

SubmitOkResp(id) ==
  [success |-> TRUE, error |-> "none", http |-> 201, submissionId |-> id,
   status |-> "pending"]

\* BufferWriteFailed swallowing the error: the request goes on to MongoDB.
BufferWriteFailed_Continue(r) ==
  [intake EXCEPT ![r].pc = "store"]

\* The temporary JSON could not be written: the request fails.
BufferWriteFailed(r) ==
  [intake EXCEPT ![r].pc = "done", ![r].resp = ServerErrorResp]

\* 4. write the temporary JSON to data/pending_submissions/
IntakeWriteTempJson(r, random, written) ==
  /\ intake[r].pc = "buffer"
  /\ IF written
       THEN /\ pendingFiles' = WriteFile(pendingFiles, FileName(now, random), FileContent(r))
            /\ intake' = [intake EXCEPT ![r].pc = "store", ![r].timestamp = now,
                                        ![r].random = random,
                                        ![r].file = FileName(now, random)]
       ELSE /\ intake' = BufferWriteFailed(r)
            /\ UNCHANGED pendingFiles
  /\ UNCHANGED <<storeUp, storeVars, clubsJson, clubsJsonBackup, now, admin, sweep, syncs, sideVars>>

\* StoreWriteFailed reporting the failure to the caller.
StoreWriteFailed_Error(r) ==
  [intake EXCEPT ![r].pc = "done", ![r].resp = ServerErrorResp]

\* MongoDB is unreachable after the temporary JSON was written: the caller is
\* still told of success and the file stays for the recovery.
StoreWriteFailed(r) ==
  [intake EXCEPT ![r].pc = "done", ![r].resp = SubmitOkResp(0)]

\* 5. write the Submission document, 6. return the success response
IntakeWriteMongo(r) ==
  /\ intake[r].pc = "store"
  /\ IF storeUp
       THEN /\ submissions' = Append(submissions,
                                NewSubmission(r, intake[r].data, intake[r].dup))
            /\ intake' = [intake EXCEPT ![r].pc = "done", ![r].sub = Len(submissions) + 1,
                                        ![r].resp = SubmitOkResp(Len(submissions) + 1)]
       ELSE /\ intake' = StoreWriteFailed(r)
            /\ UNCHANGED submissions
  /\ UNCHANGED <<storeUp, clubs, fileVars, now, admin, sweep, syncs, sideVars>>

(* -------------- recovery of data/pending_submissions/ ----------------- *)
IdleSweep == [pc |-> "idle", file |-> NoName,
              content |-> [req |-> 0], found |-> FALSE, runs |-> 0]

\* AlreadyStored answering yes for every file.
AlreadyStored_Always(content) == content.req = content.req

\* AlreadyStored never finding the submission.
AlreadyStored_Never(content) == content.req /= content.req

\* 3. is the file's submission already in MongoDB?
AlreadyStored(content) ==
  \E i \in 1..Len(submissions) : submissions[i].req = content.req

\* 1. scan the directory, 2. read a JSON file
SweepRead(w, f) ==
  /\ sweep[w].pc = "idle"
  /\ sweep[w].runs < MaxSweeps
  /\ f \in pendingFiles
  /\ sweep' = [sweep EXCEPT ![w].pc = "check", ![w].file = f.name,
                            ![w].content = f.content, ![w].found = FALSE,
                            ![w].runs = @ + 1]
  /\ UNCHANGED <<storeUp, storeVars, fileVars, now, admin, intake, syncs, sideVars>>

\* 3. check whether it already exists in MongoDB
SweepCheck(w) ==
  /\ sweep[w].pc = "check"
  /\ sweep' = IF ~storeUp
                THEN [sweep EXCEPT ![w].pc = "idle"]
                ELSE [sweep EXCEPT ![w].found = AlreadyStored(sweep[w].content),
                                   ![w].pc = IF AlreadyStored(sweep[w].content)
                                               THEN "archive" ELSE "write"]
  /\ UNCHANGED <<storeUp, storeVars, fileVars, now, admin, intake, syncs, sideVars>>

\* 4. not there -> write it to the Submission collection
SweepWrite(w) ==
  /\ sweep[w].pc = "write"
  /\ IF storeUp
       THEN /\ submissions' = Append(submissions,
                                NewSubmission(sweep[w].content.req, sweep[w].content.data,
                                              sweep[w].content.duplicateCheck))
            /\ sweep' = [sweep EXCEPT ![w].pc = "archive"]
       ELSE /\ sweep' = [sweep EXCEPT ![w].pc = "idle"]
            /\ UNCHANGED submissions
  /\ UNCHANGED <<storeUp, clubs, fileVars, now, admin, intake, syncs, sideVars>>

\* 5. after success archive or delete the JSON file
SweepArchive(w) ==
  /\ sweep[w].pc = "archive"
  /\ pendingFiles' = {f \in pendingFiles : f.name /= sweep[w].file}
  /\ sweep' = [sweep EXCEPT ![w].pc = "idle"]
  /\ UNCHANGED <<storeUp, storeVars, clubsJson, clubsJsonBackup, now, admin, intake, syncs, sideVars>>

\* A recovery run is interrupted between two steps (the process crashes); the
\* file it was working on stays where it is.
SweepCrash(w) ==
  /\ sweep[w].pc \in {"check", "write", "archive"}
  /\ sweep' = [sweep EXCEPT ![w].pc = "idle"]
  /\ UNCHANGED <<storeUp, storeVars, fileVars, now, admin, intake, syncs, sideVars>>

(* ------------- migrateClubs.js: clubs.json -> Club collection ---------- *)
IdleMigrate == [pc |-> "idle", source |-> <<>>, i |-> 0, found |-> 0,
                runs |-> 0, completed |-> 0]

\* 5. the field mapping of the migration, for one clubs.json entry
ClubFromJson(entry) ==
  [ name |-> entry.name,
    school |-> entry.school,
    coordinates |-> <<entry.coordinates[1], entry.coordinates[2]>>,
    description |-> entry.long_description,
    shortDescription |-> entry.short_description,
    sourceSubmission |-> 0,
    verifiedBy |-> "none",
    createdAt |-> now,
    updatedAt |-> now ]

\* The existing Club document after the migration updated it from an entry.
UpdatedFromJson(club, entry) ==
  [club EXCEPT !.coordinates = ClubFromJson(entry).coordinates,
               !.description = ClubFromJson(entry).description,
               !.shortDescription = ClubFromJson(entry).shortDescription,
               !.updatedAt = now]

\* ExistingClubs never finding a document.
ExistingClubs_None(entry) == {i \in 1..Len(clubs) : FALSE}

\* 3. the Club documents with the entry's name + school
ExistingClubs(entry) ==
  {i \in 1..Len(clubs) : clubs[i].name = entry.name /\ clubs[i].school = entry.school}

\* The script ends: completed, or aborted on a database error.
MigrateEnd(ok) ==
  [migrate EXCEPT !.pc = "idle", !.i = 0, !.found = 0,
                  !.completed = IF ok THEN @ + 1 ELSE @]

\* node server/scripts/migrateClubs.js: 1. read public/data/clubs.json
MigrateStart ==
  /\ migrate.pc = "idle"
  /\ migrate.runs < MaxMigrations
  /\ migrate' = IF ~storeUp
                  THEN [migrate EXCEPT !.runs = @ + 1]
                  ELSE IF clubsJson = <<>>
                    THEN [migrate EXCEPT !.runs = @ + 1, !.completed = @ + 1,
                                         !.source = clubsJson]
                    ELSE [migrate EXCEPT !.runs = @ + 1, !.source = clubsJson,
                                         !.pc = "find", !.i = 1]
  /\ UNCHANGED <<storeUp, storeVars, fileVars, now, admin, intake, sweep, syncs,
                 reader, form>>

\* 2. for each club, 3. check whether it already exists (name + school)
MigrateFind ==
  /\ migrate.pc = "find"
  /\ IF ~storeUp
       THEN migrate' = MigrateEnd(FALSE)
       ELSE IF ExistingClubs(migrate.source[migrate.i]) = {}
         THEN migrate' = [migrate EXCEPT !.pc = "save", !.found = 0]
         ELSE \E k \in ExistingClubs(migrate.source[migrate.i]) :
                migrate' = [migrate EXCEPT !.pc = "save", !.found = k]
  /\ UNCHANGED <<storeUp, storeVars, fileVars, now, admin, intake, sweep, syncs,
                 reader, form>>

\* 4. exists -> update; does not exist -> create
MigrateSave ==
  /\ migrate.pc = "save"
  /\ IF ~storeUp
       THEN /\ migrate' = MigrateEnd(FALSE)
            /\ UNCHANGED clubs
       ELSE /\ clubs' = IF migrate.found = 0
                          THEN Append(clubs, ClubFromJson(migrate.source[migrate.i]))
                          ELSE [clubs EXCEPT ![migrate.found] =
                                  UpdatedFromJson(@, migrate.source[migrate.i])]
            /\ migrate' = IF migrate.i < Len(migrate.source)
                            THEN [migrate EXCEPT !.pc = "find", !.i = @ + 1, !.found = 0]
                            ELSE MigrateEnd(TRUE)
  /\ UNCHANGED <<storeUp, submissions, fileVars, now, admin, intake, sweep, syncs,
                 reader, form>>

(* ---------------- GET /api/clubs, GET /api/clubs/:id ------------------ *)
IdleReader == [op |-> "none", search |-> "",
               id |-> [wellFormed |-> TRUE, value |-> 1], resp |-> NoResp]

NotFoundResp ==
  [success |-> FALSE, error |-> "NOT_FOUND", http |-> 404]

\* The :id parameter of a request: a string that is an ObjectId (value is the
\* document it would name) or a string that is not one.
IdParams == [wellFormed : BOOLEAN, value : 1..(MaxEntries + 1)]

\* The query parameter search; "" is a request without it.
Searches == {"", "n1", "s2"}

\* .limit(search ? 20 : undefined)
SearchLimit == 20

\* club.f || '' for a text field f, which the document may lack.
FieldOrEmpty(club, f) ==
  IF f \in DOMAIN club THEN OrElse(club[f], <<>>) ELSE <<>>

\* .select('-__v -sourceSubmission -verifiedBy')
Select(club) ==
  [f \in DOMAIN club \ {"sourceSubmission", "verifiedBy"} |-> club[f]]

\* FormattedClub filling an empty short description from the long one.
FormattedClub_Fallback(id, club) ==
  [ id |-> id, name |-> club.name, school |-> club.school,
    latitude |-> club.coordinates[2],
    longitude |-> club.coordinates[1],
    short_description |-> IF FieldOrEmpty(club, "shortDescription") = <<>>
                            THEN SubSeq(FieldOrEmpty(club, "description"), 1,
                                        IF Len(FieldOrEmpty(club, "description")) < 2
                                          THEN Len(FieldOrEmpty(club, "description"))
                                          ELSE 2)
                            ELSE club.shortDescription,
    long_description |-> FieldOrEmpty(club, "description") ]

\* formattedClub of GET /api/clubs/:id (coordinates are [lng, lat])
FormattedClub(id, club) ==
  [ id |-> id, name |-> club.name, school |-> club.school,
    latitude |-> club.coordinates[2],
    longitude |-> club.coordinates[1],
    short_description |-> FieldOrEmpty(club, "shortDescription"),
    long_description |-> FieldOrEmpty(club, "description") ]

\* One element of formattedClubs of GET /api/clubs: the same fields and the
\* internal names beside them.
ListedClub(id, club) ==
  [ id |-> id, name |-> club.name, school |-> club.school,
    latitude |-> club.coordinates[2],
    longitude |-> club.coordinates[1],
    short_description |-> FormattedClub(id, club).short_description,
    long_description |-> FormattedClub(id, club).long_description,
    shortDescription |-> FieldOrEmpty(club, "shortDescription"),
    description |-> FieldOrEmpty(club, "description"),
    coordinates |-> club.coordinates ]

\* new RegExp(search, 'i') on name and school (province and city are not
\* modelled); names are atoms, so containing is being equal.
Matches(search, club) == search \in {club.name, club.school}

\* The documents Club.find(query) selects.
Found(search) ==
  {i \in 1..Len(clubs) : search = "" \/ Matches(search, clubs[i])}

\* .sort({ createdAt: -1 }): the orders of the found documents, newest first;
\* documents of the same createdAt come in any order.
SortedOrders(S) ==
  {o \in [1..Cardinality(S) -> S] :
     /\ \A a, b \in 1..Cardinality(S) : a /= b => o[a] /= o[b]
     /\ \A a, b \in 1..Cardinality(S) :
          a < b => clubs[o[a]].createdAt >= clubs[o[b]].createdAt}

ClubsOkResp(data) ==
  [success |-> TRUE, error |-> "none", http |-> 200, data |-> data,
   total |-> Len(data)]

ClubOkResp(data) ==
  [success |-> TRUE, error |-> "none", http |-> 200, data |-> data]

\* GET /api/clubs
GetClubs(search) ==
  /\ IF ~storeUp
       THEN reader' = [IdleReader EXCEPT !.op = "list", !.search = search,
                                         !.resp = ServerErrorResp]
       ELSE \E o \in SortedOrders(Found(search)) :
              LET n == IF search /= "" /\ Len(o) > SearchLimit
                         THEN SearchLimit ELSE Len(o)
              IN  reader' = [IdleReader EXCEPT
                               !.op = "list", !.search = search,
                               !.resp = ClubsOkResp([k \in 1..n |->
                                          ListedClub(o[k], Select(clubs[o[k]]))])]
  /\ UNCHANGED <<storeUp, storeVars, fileVars, now, admin, intake, sweep, syncs,
                 migrate, form>>

\* Club.findById(req.params.id): a string that is no ObjectId cannot be cast
\* and the query throws; the handler's catch answers 500.
GetClub(id) ==
  /\ reader' =
       [IdleReader EXCEPT
          !.op = "get", !.id = id,
          !.resp = IF ~id.wellFormed \/ ~storeUp
                     THEN ServerErrorResp
                     ELSE IF id.value \notin 1..Len(clubs)
                       THEN NotFoundResp
                       ELSE ClubOkResp(FormattedClub(id.value, Select(clubs[id.value])))]
  /\ UNCHANGED <<storeUp, storeVars, fileVars, now, admin, intake, sweep, syncs,
                 migrate, form>>

(* ------------------------ the submission page ------------------------- *)
NoPayload == [submissionType |-> "none"]

\* clearStatus(): the status box is empty.
NoStatus == [type |-> "none", message |-> "none"]

\* let currentMode = 'new'; let selectedClub = null; the button is enabled,
\* window.clubsData is not loaded, no request was sent.
IdleForm ==
  [ currentMode |-> "new", active |-> FALSE, selectedClub |-> 0,
    clubsData |-> <<>>, loaded |-> FALSE, searching |-> "",
    searchResults |-> {}, disabled |-> FALSE, status |-> NoStatus,
    pc |-> "idle", payload |-> NoPayload, sent |-> NoPayload ]

\* What the user types into the club search box.
Queries == {"n", "n1", "n2"}
TooShort(query) == query = "n"

\* const payload = {...}; editingClubId is added in edit mode when a club is
\* selected (the other fields do not matter here).
Payload ==
  IF form.currentMode = "edit" /\ form.selectedClub /= 0
    THEN [submissionType |-> form.currentMode, editingClubId |-> form.selectedClub]
    ELSE [submissionType |-> form.currentMode]

\* toggleLoading(isLoading)
toggleLoading(f, isLoading) == [f EXCEPT !.disabled = isLoading]

\* showStatus(message, type)
showStatus(f, message, type) ==
  [f EXCEPT !.status = [type |-> type, message |-> message]]

\* The finally block missing: the handler ends without toggleLoading(false).
Finally_Skipped(f) == [f EXCEPT !.pc = "idle"]

\* finally { toggleLoading(false) }: the handler ends.
Finally(f) == [toggleLoading(f, FALSE) EXCEPT !.pc = "idle"]

\* catch (error) { showStatus(error.message, 'error') } finally {...}
Thrown(f, message) == Finally(showStatus(f, message, "error"))

\* fetch('/api/submissions', { body: JSON.stringify(payload) }) is called.
Fetch(f) == [f EXCEPT !.sent = f.payload, !.pc = "post"]

\* form 'submit': the button is enabled (a disabled submit button submits
\* nothing). valid is form.reportValidity(), inputOk whether the coordinates
\* and tags parse, hasLogo whether a logo file is attached.
Submit(valid, inputOk, hasLogo) ==
  /\ ~form.disabled
  /\ form.pc = "idle"
  /\ form' =
       IF ~valid
         THEN showStatus(form, "required fields", "error")
         ELSE LET loading == [toggleLoading(form, TRUE) EXCEPT !.status = NoStatus]
              IN  IF ~inputOk
                    THEN Thrown(loading, "coordinates or tags")
                    ELSE IF hasLogo
                      THEN [loading EXCEPT !.payload = Payload, !.pc = "upload"]
                      ELSE Fetch([loading EXCEPT !.payload = Payload])
  /\ UNCHANGED <<storeUp, storeVars, fileVars, now, admin, intake, sweep, syncs,
                 migrate, reader>>

\* await uploadLogo(logoFile) settles.
UploadDone(ok) ==
  /\ form.pc = "upload"
  /\ form' = IF ok THEN Fetch(form) ELSE Thrown(form, "upload failed")
  /\ UNCHANGED <<storeUp, storeVars, fileVars, now, admin, intake, sweep, syncs,
                 migrate, reader>>

\* await fetch(...) settles: a response, or a rejection (network error).
FetchDone(ok) ==
  /\ form.pc = "post"
  /\ form' = IF ok THEN [form EXCEPT !.pc = "parse"] ELSE Thrown(form, "request failed")
  /\ UNCHANGED <<storeUp, storeVars, fileVars, now, admin, intake, sweep, syncs,
                 migrate, reader>>

\* await response.json().catch(() => null) settles; success is
\* response.ok && result?.success (false also for an unparsable body).
ParseDone(success) ==
  /\ form.pc = "parse"
  /\ form' = IF success
               THEN Finally(showStatus(form, "submitted", "success"))
               ELSE Thrown(form, "submission refused")
  /\ UNCHANGED <<storeUp, storeVars, fileVars, now, admin, intake, sweep, syncs,
                 migrate, reader>>

\* toggleEditMode 'click'
ToggleEditMode ==
  /\ form' = IF form.active
               THEN [form EXCEPT !.active = FALSE, !.currentMode = "new",
                                 !.status = NoStatus, !.selectedClub = 0,
                                 !.searchResults = {}]
               ELSE [form EXCEPT !.active = TRUE, !.currentMode = "edit"]
  /\ UNCHANGED <<storeUp, storeVars, fileVars, now, admin, intake, sweep, syncs,
                 migrate, reader>>

\* The clubs of window.clubsData that a query finds (names are atoms, so
\* containing is being equal), at most ten.
SearchHits(data, query) ==
  {i \in 1..Len(data) : i <= 10 /\ query \in {data[i].name, data[i].school}}

\* clubSearchInput 'input': the search section is shown in edit mode only;
\* one search at a time is followed.
ClubSearch(query) ==
  /\ form.active
  /\ form.searching = ""
  /\ form' = IF TooShort(query)
               THEN [form EXCEPT !.searchResults = {}]
               ELSE IF form.loaded
                 THEN [form EXCEPT !.searchResults = SearchHits(form.clubsData, query)]
                 ELSE [form EXCEPT !.searching = query]
  /\ UNCHANGED <<storeUp, storeVars, fileVars, now, admin, intake, sweep, syncs,
                 migrate, reader>>

\* await fetch('/data/clubs.json') settles for a search that had to load it.
ClubSearchLoaded(ok) ==
  /\ form.searching /= ""
  /\ form' = IF ok
               THEN [form EXCEPT !.clubsData = clubsJson, !.loaded = TRUE,
                                 !.searchResults = SearchHits(clubsJson, form.searching),
                                 !.searching = ""]
               ELSE [form EXCEPT !.searchResults = {}, !.searching = ""]
  /\ UNCHANGED <<storeUp, storeVars, fileVars, now, admin, intake, sweep, syncs,
                 migrate, reader>>

\* selectClub(club): a click on a displayed search result
selectClub(club) ==
  /\ form.active
  /\ club \in form.searchResults
  /\ form' = [form EXCEPT !.selectedClub = form.clubsData[club].id,
                          !.searchResults = {},
                          !.status = [type |-> "success", message |-> "club filled in"]]
  /\ UNCHANGED <<storeUp, storeVars, fileVars, now, admin, intake, sweep, syncs,
                 migrate, reader>>

(* --------------------------- specifications --------------------------- *)
\* A Club document imported by migrateClubs.js (no source submission).
MigratedClub(data) ==
  [ name |-> data.name,
    school |-> data.school,
    coordinates |-> <<data.coordinates.longitude, data.coordinates.latitude>>,
    description |-> data.long_description,
    shortDescription |-> data.short_description,
    sourceSubmission |-> 0,
    verifiedBy |-> "none",
    createdAt |-> 0,
    updatedAt |-> 0 ]

InitCommon ==
  /\ storeUp = TRUE
  /\ pendingFiles = {}
  /\ clubsJsonBackup = <<>>
  /\ now = 1
  /\ admin = [a \in Actors |-> IdleAdmin]
  /\ intake = [r \in Reqs \cup LostReqs |-> IdleIntake]
  /\ sweep = [w \in Sweepers |-> IdleSweep]
  /\ syncs = <<>>
  /\ migrate = IdleMigrate
  /\ reader = IdleReader
  /\ form = IdleForm

\* The server starts on an empty Submission collection; the Club collection
\* is empty or holds a migrated club.
InitIntake ==
  /\ InitCommon
  /\ submissions = <<>>
  /\ \E cs \in {<<>>} \cup {<<MigratedClub(d)>> : d \in Payloads} :
       /\ clubs = cs
       /\ clubsJson = ToJson(cs)

IntakeStep(rs) ==
  \/ \E r \in rs, d \in Payloads : IntakeDuplicateCheck(r, d)
  \/ \E r \in rs, x \in RandomIds, ok \in BOOLEAN : IntakeWriteTempJson(r, x, ok)
  \/ \E r \in rs : IntakeWriteMongo(r)

SweepStep(ws) ==
  \/ \E w \in ws, f \in pendingFiles : SweepRead(w, f)
  \/ \E w \in ws : SweepCheck(w)
  \/ \E w \in ws : SweepWrite(w)
  \/ \E w \in ws : SweepArchive(w)

NextIntake ==
  \/ IntakeStep(Reqs)
  \/ StoreDown
  \/ StoreReconnect
  \/ Tick

SpecIntake == InitIntake /\ [][NextIntake]_vars

\* Intake with one recovery run at a time.
NextRecover ==
  \/ IntakeStep(LostReqs)
  \/ SweepStep({1})
  \/ StoreDown
  \/ StoreReconnect
  \/ Tick

SpecRecover == InitIntake /\ [][NextRecover]_vars

\* Intake with recovery runs, one at a time, that may crash and be run again.
NextRerun ==
  \/ IntakeStep(LostReqs)
  \/ SweepStep({1})
  \/ SweepCrash(1)
  \/ StoreDown
  \/ StoreReconnect

SpecRerun == InitIntake /\ [][NextRerun]_vars

\* Intake with concurrent recovery runs.
NextSweeps ==
  \/ IntakeStep(LostReqs)
  \/ SweepStep(Sweepers)
  \/ StoreDown
  \/ StoreReconnect
  \/ Tick

SpecSweeps == InitIntake /\ [][NextSweeps]_vars

\* Submissions 1..NumSubs were taken in and wait for review.
InitReview ==
  /\ InitCommon
  /\ clubs = <<>>
  /\ clubsJson = <<>>
  /\ \E d \in Payloads :
       submissions = [i \in 1..NumSubs |->
                        NewSubmission(i, d, [passed |-> TRUE, similarClubs |-> {}])]

NextReview ==
  \/ \E a \in Actors, id \in 1..NumSubs : ApproveCheck(a, id)
  \/ \E a \in Actors : ApproveCreateClub(a)
  \/ \E a \in Actors : ApproveUpdateStatus(a)
  \/ \E a \in Actors, id \in 1..NumSubs, reason \in Reasons : Reject(a, id, reason)
  \/ \E t \in 1..Len(syncs) : SyncRead(t)
  \/ \E t \in 1..Len(syncs) : SyncBackup(t)
  \/ \E t \in 1..Len(syncs) : SyncWrite(t)
  \/ StoreDown
  \/ StoreReconnect

SpecReview == InitReview /\ [][NextReview]_vars

\* One published club, its clubs.json, and n pending submissions.
InitSnap(n) ==
  /\ InitCommon
  /\ \E d \in Payloads :
       /\ clubs = <<MigratedClub(d)>>
       /\ clubsJson = ToJson(<<MigratedClub(d)>>)
       /\ submissions = [i \in 1..n |->
                           NewSubmission(i, d, [passed |-> FALSE, similarClubs |-> {1}])]

ApproveStep(as) ==
  \/ \E a \in as, id \in 1..Len(submissions) : ApproveCheck(a, id)
  \/ \E a \in as : ApproveCreateClub(a)
  \/ \E a \in as : ApproveUpdateStatus(a)

SyncStep ==
  \/ \E t \in 1..Len(syncs) : SyncRead(t)
  \/ \E t \in 1..Len(syncs) : SyncBackup(t)
  \/ \E t \in 1..Len(syncs) : SyncWrite(t)

\* Approvals of different submissions, each triggering its syncToJson().
NextSnap ==
  \/ ApproveStep(Actors)
  \/ SyncStep

SpecSnap == InitSnap(NumSubs + 1) /\ [][NextSnap]_vars

\* Approvals and rebuilds with failures: MongoDB outages, failing runs, and
\* runs started by hand.
NextRebuild ==
  \/ ApproveStep({"admin1"})
  \/ SyncStep
  \/ SyncManual
  \/ \E t \in 1..Len(syncs) : SyncFail(t)
  \/ StoreDown
  \/ StoreReconnect

SpecRebuild == InitSnap(NumSubs) /\ [][NextRebuild]_vars

\* The whole pipeline for one request: intake, approval, syncToJson(), on an
\* empty database.
InitPipeline ==
  /\ InitCommon
  /\ submissions = <<>>
  /\ clubs = <<>>
  /\ clubsJson = <<>>

NextPipeline ==
  \/ \E d \in FullPayloads : IntakeDuplicateCheck(1, d)
  \/ \E x \in RandomIds, ok \in BOOLEAN : IntakeWriteTempJson(1, x, ok)
  \/ IntakeWriteMongo(1)
  \/ ApproveStep({"admin1"})
  \/ SyncStep

SpecPipeline == InitPipeline /\ [][NextPipeline]_vars

\* Two published clubs with different names; the submissions under review are
\* new clubs or edits of one of the published clubs.
InitEdit ==
  /\ InitCommon
  /\ \E p1, p2 \in Payloads :
       /\ p1.name = "n1" /\ p2.name = "n2"
       /\ clubs = <<MigratedClub(p1), MigratedClub(p2)>>
       /\ clubsJson = ToJson(<<MigratedClub(p1), MigratedClub(p2)>>)
  /\ \E d \in Payloads, k \in 0..2 :
       submissions = [i \in 1..NumSubs |->
                        IF k = 0
                          THEN NewSubmission(i, d, [passed |-> FALSE, similarClubs |-> {1}])
                          ELSE EditSubmission(i, d, [passed |-> FALSE, similarClubs |-> {1}], k)]

NextEdit ==
  \/ \E a \in Actors, id \in 1..NumSubs : ApproveCheck(a, id)
  \/ \E a \in Actors : ApproveCreateClub(a)
  \/ \E a \in Actors : ApproveUpdateStatus(a)
  \/ \E a \in Actors, id \in 1..NumSubs, reason \in Reasons : Reject(a, id, reason)
  \/ \E t \in 1..Len(syncs) : SyncRead(t)
  \/ \E t \in 1..Len(syncs) : SyncBackup(t)
  \/ \E t \in 1..Len(syncs) : SyncWrite(t)

SpecEdit == InitEdit /\ [][NextEdit]_vars

\* Intake of several requests with one recovery run at a time.
NextBuffer ==
  \/ IntakeStep(Reqs)
  \/ SweepStep({1})
  \/ StoreDown
  \/ StoreReconnect

SpecBuffer == InitIntake /\ [][NextBuffer]_vars

\* The clubs.json entries a migration may find: either description empty or not.
SourcePayloads == [name : Names, school : Schools, coordinates : {Tsinghua},
                   short_description : {<<>>, ShortText},
                   long_description : {LongText}]

\* The sequences of 1..n elements of S.
SeqsUpTo(S, n) == UNION {[1..k -> S] : k \in 1..n}

\* migrateClubs.js is run on a database that is new or holds one club; the
\* source is a clubs.json of 1..MaxEntries entries (two entries may carry the
\* same name and school).
InitMigrate ==
  /\ InitCommon
  /\ submissions = <<>>
  /\ clubs \in {<<>>} \cup {<<MigratedClub(d)>> : d \in Payloads}
  /\ \E ps \in SeqsUpTo(SourcePayloads, MaxEntries) :
       clubsJson = ToJson([k \in 1..Len(ps) |-> MigratedClub(ps[k])])

NextMigrate ==
  \/ MigrateStart
  \/ MigrateFind
  \/ MigrateSave
  \/ StoreDown
  \/ StoreReconnect

SpecMigrate == InitMigrate /\ [][NextMigrate]_vars

\* A document without field f.
Without(club, f) == [g \in DOMAIN club \ {f} |-> club[g]]

\* Club documents as the collection may hold them: created at different
\* times, with a short description, an empty one, or none.
StoredClubs ==
  LET full == {[MigratedClub(d) EXCEPT !.createdAt = t] :
                 d \in SourcePayloads, t \in 0..1}
  IN  full \cup {Without(c, "shortDescription") : c \in {d \in full : d.shortDescription = <<>>}}

InitClubsApi ==
  /\ InitCommon
  /\ submissions = <<>>
  /\ clubsJson = <<>>
  /\ clubs \in {<<>>} \cup SeqsUpTo(StoredClubs, MaxEntries)

NextClubsApi ==
  \/ \E search \in Searches : GetClubs(search)
  \/ \E id \in IdParams : GetClub(id)
  \/ StoreDown
  \/ StoreReconnect

SpecClubsApi == InitClubsApi /\ [][NextClubsApi]_vars

\* The submission page over a clubs.json of two clubs.
InitForm ==
  /\ InitCommon
  /\ submissions = <<>>
  /\ \E p1, p2 \in Payloads :
       /\ p1.name = "n1" /\ p2.name = "n2"
       /\ clubs = <<MigratedClub(p1), MigratedClub(p2)>>
       /\ clubsJson = ToJson(<<MigratedClub(p1), MigratedClub(p2)>>)

NextForm ==
  \/ \E valid, inputOk, hasLogo \in BOOLEAN : Submit(valid, inputOk, hasLogo)
  \/ \E ok \in BOOLEAN : UploadDone(ok)
  \/ \E ok \in BOOLEAN : FetchDone(ok)
  \/ \E success \in BOOLEAN : ParseDone(success)
  \/ ToggleEditMode
  \/ \E query \in Queries : ClubSearch(query)
  \/ \E ok \in BOOLEAN : ClubSearchLoaded(ok)
  \/ \E club \in 1..Len(clubsJson) : selectClub(club)

SpecForm == InitForm /\ [][NextForm]_vars

\* Every promise the submit handler awaits settles: the upload, the request
\* and the parsing of the response end by resolving or rejecting.
SpecFormLive ==
  /\ InitForm /\ [][NextForm]_vars
  /\ WF_vars(\E ok \in BOOLEAN : UploadDone(ok))
  /\ WF_vars(\E ok \in BOOLEAN : FetchDone(ok))
  /\ WF_vars(\E success \in BOOLEAN : ParseDone(success))

(* ============================== claims ================================ *)
ClubsOf(id) == {c \in 1..Len(clubs) : clubs[c].sourceSubmission = id}
SubsOf(r) == {i \in 1..Len(submissions) : submissions[i].req = r}
FilesOf(r) == {f \in pendingFiles : f.content.req = r}

\* Administrator a has finished an approve call on submission id.
Approved(a, id) ==
  /\ admin[a].pc = "idle"
  /\ admin[a].op = "approve"
  /\ admin[a].sub = id

\* An approve call on submission id is between its steps.
Approving(id) ==
  \E a \in Actors : admin[a].pc \in {"create", "update"} /\ admin[a].sub = id

\* C1: of two approve calls on the same pending submission that both got an
\* answer from the store, exactly one succeeds and the other fails with
\* INVALID_STATUS, and never do two Club documents back-reference the same
\* submission.
C1_ExactlyOneApproval ==
  /\ \A id \in 1..Len(submissions) : Cardinality(ClubsOf(id)) <= 1
  /\ \A a, b \in Actors, id \in 1..Len(submissions) :
       ( /\ a /= b
         /\ Approved(a, id) /\ Approved(b, id)
         /\ admin[a].resp.error /= "SERVER_ERROR"
         /\ admin[b].resp.error /= "SERVER_ERROR" )
       => \/ admin[a].resp.success /\ admin[b].resp.error = "INVALID_STATUS"
          \/ admin[b].resp.success /\ admin[a].resp.error = "INVALID_STATUS"

\* C2: a submission that is approved or rejected never changes its status
\* again.
C2_StatusForwardOnly ==
  [][\A id \in 1..Len(submissions) :
       submissions[id].status /= "pending"
         => submissions'[id].status = submissions[id].status]_vars

\* A call of administrator a on submission id is answered in this step.
Answered(a) ==
  /\ admin[a].pc = "idle"
  /\ admin'[a].calls = admin[a].calls + 1

C5_ApprovalAtomic ==
  \A id \in 1..Len(submissions) :
    ~Approving(id)
      => /\ submissions[id].status = "approved"
              <=> \E c \in ClubsOf(id) :
                    /\ ClubsOf(id) = {c}
                    /\ clubs[c].verifiedBy = submissions[id].reviewedBy
         /\ submissions[id].status = "pending" => ClubsOf(id) = {}

\* The live request r wrote its temporary JSON and then could not write MongoDB.
Lost(r) ==
  /\ intake[r].pc = "done"
  /\ intake[r].file /= NoName
  /\ intake[r].sub = 0

\* No other intake generated the file name of request r.
OwnName(r) ==
  \A q \in DOMAIN intake : q /= r => intake[q].file /= intake[r].file

\* C4: when MongoDB is unreachable right after the temporary JSON of a request
\* was written (and no other intake generated the same file name), exactly one
\* file of the request exists until a recovery run has stored it, and once the
\* recovery run has consumed the file MongoDB holds exactly one Submission of
\* the request; recovery runs one at a time.
C4_LostIntakeRecoveredOnce ==
  \A r \in LostReqs :
    (Lost(r) /\ OwnName(r))
      => /\ Cardinality(SubsOf(r)) <= 1
         /\ Cardinality(FilesOf(r)) <= 1
         /\ FilesOf(r) = {} => Cardinality(SubsOf(r)) = 1

\* A recovery run is replaying the file of a lost request: it found no
\* Submission of it and is about to write one.
C4_Witness ==
  \E r \in LostReqs :
    /\ Lost(r) /\ OwnName(r)
    /\ Cardinality(FilesOf(r)) = 1
    /\ SubsOf(r) = {}
    /\ storeUp
    /\ sweep[1].pc = "write" /\ sweep[1].content.req = r

\* C6: when the temporary JSON was written and MongoDB is unreachable, the
\* intake request still reports success and its file stays in
\* data/pending_submissions/.
C6_FallbackReportsSuccess ==
  \A r \in Reqs :
    Lost(r)
      => /\ intake[r].resp.success
         /\ \E f \in pendingFiles : f.name = intake[r].file
         /\ OwnName(r) => Cardinality(FilesOf(r)) = 1

C6_Witness ==
  \E r \in Reqs : Lost(r) /\ OwnName(r) /\ ~storeUp /\ SubsOf(r) = {}

\* C7: when the temporary JSON cannot be written the request fails: the caller
\* gets an error and no Submission of the request is written.
C7_BufferFailureIsFatal ==
  \A r \in Reqs :
    (intake[r].pc \in {"store", "done"} /\ intake[r].file = NoName)
      => /\ intake[r].pc = "done"
         /\ ~intake[r].resp.success
         /\ intake[r].resp.error /= "none"
         /\ SubsOf(r) = {}
         /\ FilesOf(r) = {}

C7_Witness ==
  \E r \in Reqs : intake[r].pc = "done" /\ intake[r].file = NoName

\* C8: the duplicate check never ends the request: whatever its outcome the
\* request goes on to write the temporary JSON with no error response, and a
\* check that fails because MongoDB is unreachable is recorded as passed with
\* no similar clubs; what is persisted carries the recorded result.
C8_CheckNeverBlocks ==
  /\ [][\A r \in Reqs :
          (intake[r].pc = "start" /\ intake'[r].pc /= "start")
            => /\ intake'[r].pc = "buffer"
               /\ intake'[r].resp = NoResp
               /\ ~storeUp => intake'[r].dup = [passed |-> TRUE, similarClubs |-> {}]
               /\ storeUp => (intake'[r].dup.passed <=> SimilarClubs(intake'[r].data) = {})]_vars
  /\ [](/\ \A f \in pendingFiles :
            f.content.duplicateCheck = intake[f.content.req].dup
        /\ \A i \in 1..Len(submissions) :
            submissions[i].duplicateCheck = intake[submissions[i].req].dup)

C8_Witness ==
  \E i \in 1..Len(submissions) :
    /\ ~submissions[i].duplicateCheck.passed
    /\ submissions[i].duplicateCheck.similarClubs /= {}
    /\ submissions[i].status = "pending"

\* Request r has written its temporary JSON.
Persisted(r) == intake[r].file /= NoName

C10_NoDoubleSubmit ==
  \A r \in LostReqs : Cardinality(SubsOf(r)) <= 1

\* Live intake is over and every temporary JSON left in the directory, and
\* the one a recovery run has read and is about to check, has its Submission
\* in MongoDB (the live write succeeded, or a recovery run wrote it and
\* crashed before archiving the file).
AllStored ==
  /\ \A r \in LostReqs : intake[r].pc = "done"
  /\ \A f \in pendingFiles : SubsOf(f.content.req) /= {}
  /\ sweep[1].pc /= "write"
  /\ sweep[1].pc = "check" => SubsOf(sweep[1].content.req) /= {}

\* C11: a recovery run that meets a file whose Submission is already in
\* MongoDB detects it and goes on to archive the file without writing, and
\* once every remaining file has its Submission, recovery runs (any number of
\* them, crashed or not) leave the Submission collection unchanged.
C11_SweepIdempotent ==
  /\ [][( /\ sweep[1].pc = "check" /\ sweep'[1].pc \notin {"check", "idle"}
          /\ SubsOf(sweep[1].content.req) /= {} )
        => /\ sweep'[1].pc = "archive" /\ sweep'[1].found
           /\ UNCHANGED submissions]_vars
  /\ [][AllStored => (AllStored' /\ UNCHANGED submissions)]_vars

\* The second recovery run found the Submission that the first run wrote
\* before it crashed, and is about to archive the file.
C11_Witness ==
  \E r \in LostReqs :
    /\ Lost(r) /\ OwnName(r)
    /\ AllStored
    /\ Cardinality(SubsOf(r)) = 1
    /\ Cardinality(FilesOf(r)) = 1
    /\ sweep[1].runs = 2 /\ sweep[1].pc = "archive" /\ sweep[1].found
    /\ sweep[1].content.req = r

\* Two Club documents share their natural key (name + school).
SameKey(c, d) == c.name = d.name /\ c.school = d.school
NoTwoShareKey(cs) ==
  \A i, j \in 1..Len(cs) : SameKey(cs[i], cs[j]) => i = j

\* Administrator a applies the edit of an approved edit submission in this step.
EditApplied(a) ==
  /\ admin[a].pc = "create" /\ admin'[a].pc = "update"
  /\ submissions[admin[a].sub].submissionType = "edit"

\* The edit keeps the record's _id and creation time, sets updatedAt to the
\* time of the approval (never earlier than before), and changes no other
\* record nor the number of records.
InPlace(a) ==
  LET sub == submissions[admin[a].sub]
      c == sub.editingClubId
  IN  /\ Len(clubs') = Len(clubs)
      /\ admin'[a].club = c
      /\ \A i \in 1..Len(clubs) : i /= c => clubs'[i] = clubs[i]
      /\ clubs'[c].createdAt = clubs[c].createdAt
      /\ clubs'[c].updatedAt = now /\ clubs'[c].updatedAt >= clubs[c].updatedAt
      /\ clubs'[c].name = sub.data.name /\ clubs'[c].school = sub.data.school

RejectAnswered(a) == Answered(a) /\ admin'[a].op = "reject"

\* C14: reject called with an empty reason fails with the validation error
\* MISSING_REASON (400) whatever the submission's status and whether or not
\* MongoDB is reachable, and the call changes no document: the submission's
\* status and review metadata stay as they were.
C14_EmptyReasonRejected ==
  [][\A a \in Actors, id \in 1..Len(submissions) :
       Reject(a, id, "")
         => /\ RejectAnswered(a)
            /\ admin'[a].resp.error = "MISSING_REASON" /\ admin'[a].resp.http = 400
            /\ ~admin'[a].resp.success
            /\ UNCHANGED <<submissions, clubs, clubsJson, clubsJsonBackup, syncs>>]_vars

\* A reject call without a reason was refused on a submission that another
\* administrator had already rejected.
C14_Witness ==
  \E a \in Actors :
    /\ admin[a].op = "reject" /\ admin[a].pc = "idle"
    /\ admin[a].resp = MissingReasonResp
    /\ submissions[admin[a].sub].status = "rejected"
    /\ submissions[admin[a].sub].reviewedBy /= a

\* C15: a successful reject of a pending submission, of kind new or edit,
\* writes status rejected and the review metadata on that submission only:
\* the other submissions, the Club collection, clubs.json and its backup are
\* unchanged and no syncToJson() is triggered.
C15_RejectFrame ==
  [][\A a \in Actors :
       (RejectAnswered(a) /\ admin'[a].resp.success)
         => LET id == admin'[a].sub IN
            /\ submissions[id].status = "pending"
            /\ submissions'[id].status = "rejected"
            /\ submissions'[id].reviewedBy = a
            /\ submissions'[id].reviewedAt = now
            /\ submissions'[id].rejectionReason \in Reasons \ {""}
            /\ submissions'[id].data = submissions[id].data
            /\ submissions'[id].submissionType = submissions[id].submissionType
            /\ submissions'[id].editingClubId = submissions[id].editingClubId
            /\ \A i \in 1..Len(submissions) : i /= id => submissions'[i] = submissions[i]
            /\ Len(submissions') = Len(submissions)
            /\ UNCHANGED <<clubs, clubsJson, clubsJsonBackup, syncs>>]_vars

\* An edit submission was rejected; the club it references is as migrated.
C15_Witness ==
  \E a \in Actors :
    /\ admin[a].op = "reject" /\ admin[a].resp.success
    /\ submissions[admin[a].sub].submissionType = "edit"
    /\ submissions[admin[a].sub].status = "rejected"
    /\ clubs[submissions[admin[a].sub].editingClubId].updatedAt = 0
    /\ Len(clubs) = 2

\* The projection of the first k Club documents.
Projection(k) == ToJson(SubSeq(clubs, 1, k))

Quiet ==
  /\ syncs = <<>>
  /\ \A a \in Actors : admin[a].pc = "idle"

\* The administrators approve different submissions.
DifferentSubmissions ==
  \A a, b \in Actors : a /= b => admin[a].sub /= admin[b].sub

\* C16: once the approvals (of different submissions) and all the
\* syncToJson() runs they triggered have completed, clubs.json is the
\* projection of the whole Club collection.
C16_FinalSnapshotComplete ==
  (Quiet /\ DifferentSubmissions) => clubsJson = ToJson(clubs)

C18_NoPartialSnapshot ==
  \E k \in 1..Len(clubs) : clubsJson = Projection(k)

\* A run failed after its backup and before its write: clubs.json is still
\* the complete older file although the collection has a new club.
C18_Witness ==
  /\ syncs = <<>>
  /\ Len(clubs) = 2
  /\ clubsJson = Projection(1)
  /\ clubsJsonBackup = clubsJson

\* C19: right after a run replaces clubs.json by a different content,
\* clubs.json.backup holds the content that clubs.json had just before the
\* replacement, also when the runs of approvals of different submissions
\* interleave.
C19_BackupIsPrevious ==
  [][\A t \in 1..Len(syncs) :
       (syncs[t].pc = "write" /\ SyncWrite(t) /\ DifferentSubmissions
          /\ clubsJson' /= clubsJson)
         => clubsJsonBackup' = clubsJson]_vars

\* The descriptions and the place of document d are those of request body b.
Carries(d, b) ==
  /\ d.shortDescription = b.short_description
  /\ d.description = b.long_description
  /\ d.coordinates = <<b.coordinates.longitude, b.coordinates.latitude>>

\* C20: the Submission, the Club created from it and the clubs.json entry of
\* that Club each carry the short and the long description exactly as they
\* were submitted, empty or not, and the coordinates submitted as
\* {latitude, longitude} as the pair <<longitude, latitude>>.
C20_FieldsThroughPipeline ==
  /\ \A i \in 1..Len(submissions) :
       Carries(submissions[i].data, intake[submissions[i].req].data)
  /\ \A c \in 1..Len(clubs) :
       Carries(clubs[c], intake[submissions[clubs[c].sourceSubmission].req].data)
  /\ \A e \in 1..Len(clubsJson) :
       LET b == intake[submissions[clubs[clubsJson[e].id].sourceSubmission].req].data
       IN  /\ clubsJson[e].short_description = b.short_description
           /\ clubsJson[e].long_description = b.long_description
           /\ clubsJson[e].coordinates = <<b.coordinates.longitude, b.coordinates.latitude>>

\* clubs.json has the entry of a club submitted at (39, 116) with an empty
\* short description and a long one.
C20_Witness ==
  /\ Len(clubsJson) = 1
  /\ intake[1].data.coordinates = [latitude |-> 39, longitude |-> 116]
  /\ intake[1].data.short_description = <<>>
  /\ intake[1].data.long_description = LongText
  /\ clubsJson[1].coordinates = <<116, 39>>
  /\ clubsJson[1].short_description = <<>>
  /\ clubsJson[1].long_description = LongText
  /\ submissions[1].status = "approved"

\* C21: migrateClubs.js run again over the same clubs.json creates no Club
\* document once a run has completed, and at no moment do two Club documents
\* carry the same name + school.
C21_MigrateIdempotent ==
  /\ [](NoTwoShareKey(clubs))
  /\ [][(migrate.completed >= 1 /\ migrate.source = clubsJson)
          => Len(clubs') = Len(clubs)]_vars

\* Two runs over a clubs.json of two clubs have completed, the second one
\* having gone through both entries of a collection that held them.
C21_Witness ==
  /\ migrate.completed = 2
  /\ migrate.pc = "idle"
  /\ Len(migrate.source) = 2
  /\ Len(clubs) = 2
  /\ \A i \in 1..2 : ExistingClubs(clubsJson[i]) /= {}

\* The response element shows the stored document: its short description (the
\* empty text when the document has none), its long description, its place,
\* and neither sourceSubmission nor verifiedBy.
Shows(entry, club) ==
  /\ entry.short_description =
       (IF "shortDescription" \in DOMAIN club THEN club.shortDescription ELSE <<>>)
  /\ entry.long_description = club.description
  /\ entry.latitude = club.coordinates[2]
  /\ entry.longitude = club.coordinates[1]
  /\ "sourceSubmission" \notin DOMAIN entry
  /\ "verifiedBy" \notin DOMAIN entry

\* C22: every club GET /api/clubs and GET /api/clubs/:id return carries the
\* stored shortDescription as short_description (empty when empty or missing),
\* the stored description as long_description, coordinates[1] as latitude and
\* coordinates[0] as longitude, without sourceSubmission and verifiedBy; the
\* list without a search holds every club.
C22_ClubsApiFields ==
  /\ (reader.op = "list" /\ reader.resp.success) =>
        /\ \A k \in 1..Len(reader.resp.data) :
             Shows(reader.resp.data[k], clubs[reader.resp.data[k].id])
        /\ reader.search = "" =>
             {reader.resp.data[k].id : k \in 1..Len(reader.resp.data)} = 1..Len(clubs)
  /\ (reader.op = "get" /\ reader.resp.success) =>
        /\ reader.resp.data.id = reader.id.value
        /\ Shows(reader.resp.data, clubs[reader.id.value])

\* The list was returned for two clubs, one without a shortDescription field
\* and one with an empty one, both with a long description.
C22_Witness ==
  /\ reader.op = "list" /\ reader.resp.success
  /\ Len(reader.resp.data) = 2
  /\ \E k \in 1..2 : "shortDescription" \notin DOMAIN clubs[k]
  /\ \E k \in 1..2 : /\ "shortDescription" \in DOMAIN clubs[k]
                       /\ clubs[k].shortDescription = <<>>
  /\ \A k \in 1..2 : reader.resp.data[k].short_description = <<>>
  /\ \A k \in 1..2 : reader.resp.data[k].long_description = LongText

\* C23: with the database reachable, GET /api/clubs/:id answers an id that is
\* no ObjectId with INVALID_ID (400) and an ObjectId that names no club with
\* NOT_FOUND (404).
C23_IdErrorsDistinguished ==
  [][\A id \in IdParams :
       (storeUp /\ GetClub(id)) =>
         /\ ~id.wellFormed =>
              (reader'.resp.error = "INVALID_ID" /\ reader'.resp.http = 400)
         /\ (id.wellFormed /\ id.value \notin 1..Len(clubs)) =>
              (reader'.resp.error = "NOT_FOUND" /\ reader'.resp.http = 404)]_vars

\* C24: a step of an intake request that reaches MongoDB (the duplicate check
\* reading the Club collection, the write of the Submission document) is taken
\* only after the request has written its temporary JSON.
C24_BufferBeforeStore ==
  [][\A r \in Reqs :
       ((\E d \in Payloads : IntakeDuplicateCheck(r, d)) \/ IntakeWriteMongo(r))
         => intake[r].file /= NoName]_vars

\* C25: a recovery run removes a temporary JSON from the directory only when
\* the Submission of the record in that file is in MongoDB.
C25_ConsumedAfterStored ==
  [][\A f \in pendingFiles :
       (f \notin pendingFiles' /\ \E w \in Sweepers : SweepArchive(w))
         => SubsOf(f.content.req) /= {}]_vars

\* C26: every Club document that names a source submission names one whose
\* status is approved.
C26_ClaimBeforePublish ==
  \A c \in 1..Len(clubs) :
    clubs[c].sourceSubmission /= 0
      => submissions[clubs[c].sourceSubmission].status = "approved"

\* The review fields of a submission agree with its status.
ReviewFieldsFollow(sub) ==
  /\ sub.status = "pending" => (sub.reviewedBy = "none" /\ sub.reviewedAt = 0)
  /\ sub.status /= "pending" => (sub.reviewedBy \in Actors /\ sub.reviewedAt /= 0)
  /\ sub.status = "approved" => sub.rejectionReason = "none"
  /\ sub.status = "rejected" <=> sub.rejectionReason \notin {"none", ""}

\* C27: reviewedBy and reviewedAt are null exactly while a submission is
\* pending, rejectionReason is a non-empty text exactly while it is rejected,
\* and the approve that updates a submission leaves the approving
\* administrator as reviewedBy and no rejectionReason.
C27_ReviewMetadataFollowsStatus ==
  /\ [](\A i \in 1..Len(submissions) : ReviewFieldsFollow(submissions[i]))
  /\ [][\A a \in Actors :
          (admin[a].pc = "update" /\ storeUp /\ ApproveUpdateStatus(a))
            => /\ submissions'[admin[a].sub].status = "approved"
               /\ submissions'[admin[a].sub].reviewedBy = a
               /\ submissions'[admin[a].sub].reviewedAt = now
               /\ submissions'[admin[a].sub].rejectionReason = "none"]_vars

\* An approve that had passed its status check completed after the other
\* administrator rejected the same submission: the submission is approved,
\* reviewed by the approving administrator, and carries no rejection reason.
C27_Witness ==
  \E a, b \in Actors :
    /\ a /= b
    /\ admin[a].op = "approve" /\ admin[a].resp.success
    /\ admin[b].op = "reject" /\ admin[b].resp.success
    /\ admin[a].sub = admin[b].sub
    /\ submissions[admin[a].sub].status = "approved"
    /\ submissions[admin[a].sub].reviewedBy = a
    /\ submissions[admin[a].sub].rejectionReason = "none"

\* C28: a payload the page sends with submissionType 'edit' carries
\* editingClubId, the id of a club of clubs.json, and a payload sent with
\* submissionType 'new' carries none.
C28_EditPayloadCarriesClub ==
  /\ form.sent.submissionType = "edit" =>
        /\ "editingClubId" \in DOMAIN form.sent
        /\ \E i \in 1..Len(clubsJson) : form.sent.editingClubId = clubsJson[i].id
  /\ form.sent.submissionType = "new" => "editingClubId" \notin DOMAIN form.sent

\* C29: a submission attempt that disabled the submit button enables it
\* again, however the attempt ends, and the button is never disabled while no
\* attempt is under way.
C29_ButtonReenabled ==
  /\ form.disabled ~> ~form.disabled
  /\ [](form.pc = "idle" => ~form.disabled)

\* An attempt that sent its request ended with the server's answer refused or
\* unparsable: the error is shown, the handler is over, the button is enabled.
C29_Witness ==
  /\ form.pc = "idle"
  /\ form.sent /= NoPayload
  /\ form.status = [type |-> "error", message |-> "submission refused"]
  /\ ~form.disabled
====
